---- MODULE Spec2Model ----
(***************************************************************************)
(* bevy_serial (src/src/lib.rs): SerialPlugin::build fills the port table  *)
(* (SERIALS, Indices); read_serial drains every port the poller reports,   *)
(* write_serial pushes every pending SerialWriteEvent to its port.         *)
(* Tokens are 0-based as in the code; serials[t + 1] is SERIALS[t].        *)
(***************************************************************************)
EXTENDS Integers, Sequences, FiniteSets, TLC

\* lib.rs:228
DEFAULT_READ_BUFFER_LEN == 2048

\* Bounds of the exploration: MaxIO caps the device calls that return data to
\* a read or that leave a read or write without progress (io); MaxSettings
\* caps the number of port settings build is run on.
MaxIO == 3
MaxSettings == 2

VARIABLES
    phase,              \* schedule of the frame that is running
    settings,           \* SerialPlugin.settings
    indices,            \* Indices(HashMap<String, usize>)
    serials,            \* SERIALS: label and connected of each SerialStreamLabeled
    lock,               \* holder of each port's Mutex
    rpc,                \* position of read_serial
    events,             \* mio_ctx.events of the current run
    ei,                 \* position of the `for event` loop (1-based)
    buffer,             \* read buffer of the current drain
    bytes_read,
    rres,               \* what the stream.read call of the step before returned
    io,                 \* device calls so far that returned data to a read, or
                        \* an error or nothing to a read or write with bytes left
    ev_receive_serial,  \* SerialReadEvent records sent in the current run
    delivered,          \* per token: bytes successful reads returned in the current run
    emitted,            \* per token: bytes of the records sent in the current run
    wpc,                \* position of write_serial
    ev_write_serial,    \* pending SerialWriteEvent records of the current run
    wi,                 \* position of the `for SerialWriteEvent` loop (1-based)
    serial_index,
    bytes_wrote,
    wres,               \* what the stream.write call of the step before returned
    offered,            \* the slice handed to the stream.write call under way
    accepts,            \* write calls of the current request that took bytes
    sent,               \* bytes the device accepted from the current request
    wire                \* per token: bytes the device accepted in the current run

vars == <<phase, settings, indices, serials, lock, io, rpc, events, ei, buffer,
          bytes_read, rres, ev_receive_serial, delivered, emitted,
          wpc, ev_write_serial, wi, serial_index, bytes_wrote, wres,
          offered, accepts, sent, wire>>

buildVars == <<settings, indices, serials>>
readVars == <<rpc, events, ei, buffer, bytes_read, rres, ev_receive_serial,
              delivered, emitted>>
writeVars == <<wpc, ev_write_serial, wi, serial_index, bytes_wrote, wres,
               offered, accepts, sent, wire>>

(***************************************************************************)
(* A Vec<u8> that ends in zero bytes is written [head, zeros]: the bytes   *)
(* of head followed by `zeros` bytes 0.  vec![0_u8; n] is Zeros(n).        *)
(***************************************************************************)
Zeros(n) == [head |-> <<>>, zeros |-> n]

\* buffer.len()
VecLen(v) == Len(v.head) + v.zeros

\* buffer[j - 1]
VecAt(v, j) == IF j <= Len(v.head) THEN v.head[j] ELSE 0

Max(a, b) == IF a >= b THEN a ELSE b

\* the MutexGuard goes out of scope at the end of the `if let Ok(mut serial)`
\* block, on break and on continue: lib.rs:351, 415
UnlockNever(l, t) == l
Unlock(l, t) == [l EXCEPT ![t] = "free"]

\* no read or write call was made in the step before
NoResult == [kind |-> "None", n |-> 0]

\* the vector whose first n bytes are given by f and whose length is len
VecOf(f, n, len) == [head |-> [j \in 1..n |-> f[j]], zeros |-> len - n]

(***************************************************************************)
(* SerialPlugin::build                                                     *)
(***************************************************************************)
None == <<>>
Some(x) == <<x>>

Paths == {"/dev/ttyUSB0", "/dev/ttyUSB1", "/dev/ttyACM0"}
Labels == {"a", "b", "/dev/ttyUSB0"}
SerialSetting == [label : {None} \cup {Some(l) : l \in Labels}, port_name : Paths]

\* every ordered sequence of at most MaxSettings port settings; a device is
\* opened once (SerialStream::open of a path that is open fails and build
\* panics, lib.rs:248-250)
AllSettings ==
    {s \in UNION {[1..n -> SerialSetting] : n \in 0..MaxSettings} :
        \A i, j \in DOMAIN s : i # j => s[i].port_name # s[j].port_name}

\* the two-port table of the usage examples: labels "a" and "b"
RunSettings ==
    { <<[label |-> Some("a"), port_name |-> "/dev/ttyUSB0"],
        [label |-> Some("b"), port_name |-> "/dev/ttyUSB1"]>> }

EmptyMap == [l \in {} |-> 0]

\* HashMap::insert: a later insert of the same key replaces the value
HashInsertKeepFirst(map, k, v) ==
    [l \in DOMAIN map \cup {k} |-> IF l \in DOMAIN map THEN map[l] ELSE v]
HashInsert(map, k, v) ==
    [l \in DOMAIN map \cup {k} |-> IF l = k THEN v ELSE map[l]]

\* lib.rs:263-267
LabelOf(setting) ==
    IF setting.label # None THEN setting.label[1] ELSE setting.port_name

\* one iteration of the `for (i, setting)` loop: lib.rs:270-275
BuildIter(ind, ser, i, setting) ==
    [indices |-> HashInsert(ind, LabelOf(setting), i),
     serials |-> Append(ser, [label |-> LabelOf(setting), connected |-> TRUE])]

RECURSIVE BuildFrom(_, _, _)
BuildFrom(sets, ind, ser) ==
    IF Len(ser) = Len(sets) THEN [indices |-> ind, serials |-> ser]
    ELSE LET st == BuildIter(ind, ser, Len(ser), sets[Len(ser) + 1])
         IN  BuildFrom(sets, st.indices, st.serials)

\* the whole loop of build
Build(sets) == BuildFrom(sets, EmptyMap, <<>>)

Tokens == 0 .. Len(settings) - 1

\* state of both pumps before their first run
PumpsIdle ==
    /\ phase = "PreUpdate"
    /\ lock = [t \in Tokens |-> "free"]
    /\ rpc = "idle" /\ events = <<>> /\ ei = 0
    /\ buffer = Zeros(0) /\ bytes_read = 0 /\ io = 0
    /\ rres = NoResult /\ wres = NoResult
    /\ ev_receive_serial = <<>>
    /\ delivered = [t \in Tokens |-> <<>>]
    /\ emitted = [t \in Tokens |-> <<>>]
    /\ wpc = "idle" /\ ev_write_serial = <<>> /\ wi = 0
    /\ serial_index = 0 /\ bytes_wrote = 0 /\ offered = <<>>
    /\ accepts = 0 /\ sent = <<>>
    /\ wire = [t \in Tokens |-> <<>>]

\* build, step by step, from any sequence of settings
BuildInit ==
    /\ settings \in AllSettings
    /\ indices = EmptyMap
    /\ serials = <<>>
    /\ PumpsIdle

BuildStep ==
    /\ Len(serials) < Len(settings)
    /\ UNCHANGED phase
    /\ LET st == BuildIter(indices, serials, Len(serials), settings[Len(serials) + 1])
       IN  /\ indices' = st.indices
           /\ serials' = st.serials
    /\ UNCHANGED <<settings, lock, io, readVars, writeVars>>

BuildSpec == BuildInit /\ [][BuildStep]_vars

\* the state after construction
Init ==
    /\ settings \in RunSettings
    /\ indices = Build(settings).indices
    /\ serials = Build(settings).serials
    /\ PumpsIdle

\* a table of one port, and the state after its construction
LiveSettings == { <<[label |-> Some("a"), port_name |-> "/dev/ttyUSB0"]>> }

LiveInit ==
    /\ settings \in LiveSettings
    /\ indices = Build(settings).indices
    /\ serials = Build(settings).serials
    /\ PumpsIdle


(***************************************************************************)
(* The devices.  A successful read of n bytes returns the next n bytes of  *)
(* what the device sends during the run; byte k (0-based) of what token    *)
(* t's device sends during a run is DeviceByte(t, k).                      *)
(***************************************************************************)
DeviceByte(t, k) == 65 + ((k + 13 * t) % 26)

Chunk(t, from, n) == [j \in 1..n |-> DeviceByte(t, from + j - 1)]

\* chunk sizes a device hands to one read call
SmallSizes == {1, 2}

\* one mio event: the token and whether event.is_readable()
Event == [token : Tokens, readable : BOOLEAN]

\* what one poll may leave in mio_ctx.events: at most one event per token,
\* in the order the devices became ready, which is any order
ReadySeqs ==
    {s \in UNION {[1..n -> Event] : n \in 0..Len(settings)} :
        \A i, j \in DOMAIN s : i # j => s[i].token # s[j].token}

(***************************************************************************)
(* read_serial                                                             *)
(***************************************************************************)
\* lib.rs:317
ReadGuardAlways(serial) == TRUE
ReadGuard(serial) == serial.connected

\* stream.read(&mut buffer[bytes_read..]) storing `chunk`: lib.rs:318
ReadIntoFront(buf, at, chunk) ==
    LET n == Max(Len(buf.head), Len(chunk))
    IN  VecOf([j \in 1..n |-> IF j <= Len(chunk) THEN chunk[j] ELSE VecAt(buf, j)],
              n, VecLen(buf))
ReadInto(buf, at, chunk) ==
    LET n == Max(Len(buf.head), at + Len(chunk))
    IN  VecOf([j \in 1..n |-> IF j > at /\ j <= at + Len(chunk)
                              THEN chunk[j - at] ELSE VecAt(buf, j)],
              n, VecLen(buf))

\* lib.rs:328-330
GrowNever(buf, n) == buf
Grow(buf, n) ==
    IF n = VecLen(buf)
    THEN [buf EXCEPT !.zeros = @ + DEFAULT_READ_BUFFER_LEN]
    ELSE buf

\* buffer.drain(..bytes_read).collect(): lib.rs:335
DrainAll(buf, n) == [j \in 1..VecLen(buf) |-> VecAt(buf, j)]
Drain(buf, n) == [j \in 1..n |-> VecAt(buf, j)]

\* event.token().0: lib.rs:308
TokenOfPosition(evs, i) == i - 1
TokenOf(evs, i) == evs[i].token

tok == TokenOf(events, ei)

\* results of one stream.read call into a slice of `room` bytes
ReadResults(sizes, room) ==
    {[kind |-> "Ok", n |-> n] : n \in {m \in sizes : m <= room /\ io < MaxIO}}
    \cup {[kind |-> "Ok", n |-> 0], [kind |-> "WouldBlock", n |-> 0]}
    \cup {[kind |-> k, n |-> 0] : k \in {e \in {"Interrupted", "Other"} : io < MaxIO}}

\* the arm of the match at lib.rs:318-347 a result of stream.read takes
ReadArmEofFlushes(res) ==
    IF res.kind = "Ok" THEN (IF res.n = 0 THEN "WouldBlock" ELSE "Data")
    ELSE IF res.kind = "WouldBlock" THEN "WouldBlock"
    ELSE IF res.kind = "Interrupted" THEN "Continue" ELSE "Logged"
ReadArmWouldBlockCloses(res) ==
    IF res.kind = "Ok" THEN (IF res.n = 0 THEN "Eof" ELSE "Data")
    ELSE IF res.kind = "WouldBlock" THEN "Eof"
    ELSE IF res.kind = "Interrupted" THEN "Continue" ELSE "Logged"
ReadArmErrorFatal(res) ==
    IF res.kind = "Ok" THEN (IF res.n = 0 THEN "Eof" ELSE "Data")
    ELSE IF res.kind = "WouldBlock" THEN "WouldBlock"
    ELSE IF res.kind = "Interrupted" THEN "Continue" ELSE "Eof"
ReadArm(res) ==
    IF res.kind = "Ok" THEN (IF res.n = 0 THEN "Eof" ELSE "Data")
    ELSE IF res.kind = "WouldBlock" THEN "WouldBlock"
    ELSE IF res.kind = "Interrupted" THEN "Continue" ELSE "Logged"

\* leaving the drain loop: the buffer goes out of scope, next event
EndDrain ==
    /\ rpc' = "next"
    /\ ei' = ei + 1
    /\ buffer' = Zeros(0)
    /\ bytes_read' = 0

\* lib.rs:299-301, 214-220: one run of read_serial starts with one poll; a
\* poll that fails (Interrupted is one such failure) panics
R_Poll ==
    /\ rpc = "idle"
    /\ wpc # "panicked"
    /\ ev_receive_serial' = <<>>
    /\ IF DOMAIN indices # {}
       THEN \/ /\ events' \in ReadySeqs
               /\ ei' = 1
               /\ rpc' = "next"
            \/ /\ rpc' = "panicked"
               /\ UNCHANGED <<events, ei>>
       ELSE UNCHANGED <<events, ei, rpc>>
    /\ delivered' = [t \in Tokens |-> <<>>]
    /\ emitted' = [t \in Tokens |-> <<>>]
    /\ UNCHANGED <<buildVars, lock, io, buffer, bytes_read, rres, writeVars>>

\* lib.rs:304-313: head of the `for event` loop; after the last event
\* read_serial returns, and the events are not read again before the next
\* poll overwrites them
R_NextEvent ==
    /\ rpc = "next"
    /\ IF ei > Len(events)
       THEN /\ rpc' = "idle"
            /\ events' = <<>>
            /\ ei' = 0
            /\ UNCHANGED <<buffer, bytes_read>>
       ELSE IF events[ei].readable
            THEN /\ buffer' = Zeros(DEFAULT_READ_BUFFER_LEN)
                 /\ bytes_read' = 0
                 /\ rpc' = "lock"
                 /\ UNCHANGED <<events, ei>>
            ELSE /\ ei' = ei + 1
                 /\ UNCHANGED <<rpc, events, buffer, bytes_read>>
    /\ rres' = NoResult
    /\ UNCHANGED <<buildVars, lock, io, ev_receive_serial, delivered,
                   emitted, writeVars>>

\* lib.rs:316: serial_mtx.lock()
R_Lock ==
    /\ rpc = "lock"
    /\ lock[tok] = "free"
    /\ lock' = [lock EXCEPT ![tok] = "read_serial"]
    /\ rpc' = "check"
    /\ rres' = NoResult
    /\ UNCHANGED <<buildVars, io, events, ei, buffer, bytes_read,
                   ev_receive_serial, delivered, emitted, writeVars>>

\* lib.rs:317, 348-350: the connected test; a closed port is logged and the
\* loop goes round again
R_Check ==
    /\ rpc = "check"
    /\ IF ReadGuard(serials[tok + 1])
       THEN /\ rpc' = "read"
            /\ UNCHANGED lock
       ELSE /\ rpc' = "lock"
            /\ lock' = Unlock(lock, tok)
    /\ UNCHANGED <<buildVars, io, events, ei, buffer, bytes_read, rres,
                   ev_receive_serial, delivered, emitted, writeVars>>

\* lib.rs:318-347: one stream.read call and the match on its result
R_ReadWith(sizes) ==
    /\ rpc = "read"
    /\ \E res \in ReadResults(sizes, VecLen(buffer) - bytes_read) :
        /\ lock' = Unlock(lock, tok)
        /\ rres' = res
        /\ CASE ReadArm(res) = "Eof" ->
                  /\ serials' = [serials EXCEPT ![tok + 1].connected = FALSE]
                  /\ EndDrain
                  /\ UNCHANGED <<io, ev_receive_serial, delivered, emitted>>
             [] ReadArm(res) = "Data" ->
                  LET chunk == Chunk(tok, Len(delivered[tok]), res.n)
                      filled == ReadInto(buffer, bytes_read, chunk)
                  IN  /\ bytes_read' = bytes_read + res.n
                      /\ buffer' = Grow(filled, bytes_read + res.n)
                      /\ delivered' = [delivered EXCEPT ![tok] = @ \o chunk]
                      /\ io' = io + 1
                      /\ rpc' = "lock"
                      /\ UNCHANGED <<serials, ei, ev_receive_serial, emitted>>
             [] ReadArm(res) = "WouldBlock" ->
                  LET data == Drain(buffer, bytes_read)
                  IN  /\ ev_receive_serial' =
                            Append(ev_receive_serial,
                                   [label |-> serials[tok + 1].label, bytes |-> data])
                      /\ emitted' = [emitted EXCEPT ![tok] = @ \o data]
                      /\ EndDrain
                      /\ UNCHANGED <<serials, io, delivered>>
             [] OTHER ->
                  /\ io' = io + 1
                  /\ rpc' = "lock"
                  /\ UNCHANGED <<serials, ei, buffer, bytes_read,
                                 ev_receive_serial, delivered, emitted>>
    /\ UNCHANGED <<settings, indices, events, writeVars>>

R_Read == R_ReadWith(SmallSizes)

(***************************************************************************)
(* write_serial                                                            *)
(***************************************************************************)
SerialWriteEvent(label, buf) == [label |-> label, buffer |-> buf]

Hello == <<72, 101, 108, 108, 111>>

\* the pending write events one run of write_serial may find
WriteQueues ==
    { <<>>,
      <<SerialWriteEvent("a", Hello)>>,
      <<SerialWriteEvent("a", <<1, 2>>), SerialWriteEvent("b", <<3>>)>>,
      <<SerialWriteEvent("b", <<4>>), SerialWriteEvent("zz", <<5>>),
        SerialWriteEvent("a", <<6>>)>>,
      <<SerialWriteEvent("a", <<>>), SerialWriteEvent("a", <<7, 8>>),
        SerialWriteEvent("a", <<9>>)>> }

\* the SerialWriteEvent the `for` loop is at: lib.rs:366
requestBackwards == ev_write_serial[Len(ev_write_serial) - wi + 1]
request == ev_write_serial[wi]

\* indices.0.get(label): lib.rs:368
ResolveFirst(ind, label) == 0
Resolve(ind, label) == ind[label]

\* lib.rs:381
WriteGuardAlways(serial) == TRUE
WriteGuard(serial) == serial.connected

\* &buffer[bytes_wrote..]: lib.rs:383
WriteSliceWhole(buf, wrote) == buf
WriteSlice(buf, wrote) == SubSeq(buf, wrote + 1, Len(buf))

\* the two Ok arms: lib.rs:385-396
AdvanceNoPartial(wrote, n, len) == wrote + len
AdvanceRemaining(wrote, n, len) ==
    IF n < len - wrote THEN wrote + n ELSE wrote + len
Advance(wrote, n, len) == IF n < len THEN wrote + n ELSE wrote + len

\* results of one stream.write call offered `room` bytes
WriteResults(room) ==
    {[kind |-> "Ok", n |-> n] : n \in 1..room}
    \cup {[kind |-> "Ok", n |-> 0] : z \in {r \in {room} : r = 0 \/ io < MaxIO}}
    \cup {[kind |-> k, n |-> 0] :
            k \in {e \in {"WouldBlock", "Interrupted", "Other"} : io < MaxIO}}

\* lib.rs:410-414: the guard is dropped; break when everything was written
LoopEndAlways(wrote) ==
    /\ lock' = Unlock(lock, serial_index)
    /\ wpc' = "next"
    /\ wi' = wi + 1
LoopEnd(wrote) ==
    /\ lock' = Unlock(lock, serial_index)
    /\ IF wrote = Len(request.buffer)
       THEN /\ wpc' = "next"
            /\ wi' = wi + 1
       ELSE /\ wpc' = "lock"
            /\ UNCHANGED wi

\* lib.rs:365-366: one run of write_serial takes the pending events
W_Start ==
    /\ wpc = "idle"
    /\ rpc # "panicked"
    /\ IF DOMAIN indices # {}
       THEN /\ ev_write_serial' \in WriteQueues
            /\ wi' = 1
            /\ wpc' = "next"
       ELSE UNCHANGED <<ev_write_serial, wi, wpc>>
    /\ wire' = [t \in Tokens |-> <<>>]
    /\ UNCHANGED <<buildVars, lock, io, readVars, serial_index, bytes_wrote,
                   wres, offered, accepts, sent>>

\* lib.rs:366-377: head of the `for SerialWriteEvent` loop; an unknown label
\* panics
W_NextRequest ==
    /\ wpc = "next"
    /\ IF wi > Len(ev_write_serial)
       THEN /\ wpc' = "idle"
            /\ ev_write_serial' = <<>>
            /\ wi' = 0
            /\ UNCHANGED <<serial_index, bytes_wrote, accepts, sent>>
       ELSE IF request.label \notin DOMAIN indices
            THEN /\ wpc' = "panicked"
                 /\ UNCHANGED <<ev_write_serial, wi, serial_index, bytes_wrote,
                                accepts, sent>>
            ELSE /\ serial_index' = Resolve(indices, request.label)
                 /\ bytes_wrote' = 0
                 /\ accepts' = 0
                 /\ sent' = <<>>
                 /\ wpc' = "lock"
                 /\ UNCHANGED <<ev_write_serial, wi>>
    /\ wres' = NoResult
    /\ UNCHANGED <<buildVars, lock, io, readVars, offered, wire>>

\* lib.rs:380: serial_mtx.lock()
W_Lock ==
    /\ wpc = "lock"
    /\ lock[serial_index] = "free"
    /\ lock' = [lock EXCEPT ![serial_index] = "write_serial"]
    /\ wpc' = "check"
    /\ wres' = NoResult
    /\ UNCHANGED <<buildVars, io, readVars, ev_write_serial, wi,
                   serial_index, bytes_wrote, offered, accepts, sent, wire>>

\* lib.rs:381, 406-414: the connected test; a closed port is logged and the
\* loop goes round again unless nothing is left to write
W_Check ==
    /\ wpc = "check"
    /\ IF WriteGuard(serials[serial_index + 1])
       THEN /\ wpc' = "write"
            /\ offered' = WriteSlice(request.buffer, bytes_wrote)
            /\ UNCHANGED <<lock, wi>>
       ELSE /\ LoopEnd(bytes_wrote)
            /\ UNCHANGED offered
    /\ UNCHANGED <<buildVars, io, readVars, ev_write_serial,
                   serial_index, bytes_wrote, wres, accepts, sent, wire>>

\* lib.rs:383-414: the match on the result of the stream.write call and the
\* test that ends the loop; `cost` is what the call takes from the budget io
W_Match(res, cost) ==
    LET taken == SubSeq(offered, 1, res.n)
        wrote == IF res.kind = "Ok"
                 THEN Advance(bytes_wrote, res.n, Len(request.buffer))
                 ELSE bytes_wrote
    IN  /\ bytes_wrote' = wrote
        /\ wres' = res
        /\ sent' = sent \o taken
        /\ wire' = [wire EXCEPT ![serial_index] = @ \o taken]
        /\ accepts' = IF res.n > 0 THEN accepts + 1 ELSE accepts
        /\ io' = io + cost
        /\ offered' = <<>>
        /\ LoopEnd(wrote)

\* lib.rs:383-414: one stream.write call with any result
W_Write ==
    /\ wpc = "write"
    /\ \E res \in WriteResults(Len(offered)) :
        W_Match(res, IF res.n = 0 /\ Len(offered) > 0 THEN 1 ELSE 0)
    /\ UNCHANGED <<buildVars, readVars, ev_write_serial, serial_index>>

WriteNext == W_Start \/ W_NextRequest \/ W_Lock \/ W_Check \/ W_Write

(***************************************************************************)
(* Specifications                                                          *)
(***************************************************************************)
ReadNext == R_Poll \/ R_NextEvent \/ R_Lock \/ R_Check \/ R_Read

\* the schedule of the app: read_serial runs in PreUpdate and write_serial in
\* PostUpdate of every frame, one after the other (lib.rs:287-288)
ReadReturns == phase' = IF rpc' = "idle" THEN "PostUpdate" ELSE phase
WriteReturns == phase' = IF wpc' = "idle" THEN "PreUpdate" ELSE phase

Next ==
    \/ (phase = "PreUpdate" /\ R_Poll /\ ReadReturns)
    \/ (R_NextEvent /\ ReadReturns)
    \/ (R_Lock /\ UNCHANGED phase)
    \/ (R_Check /\ UNCHANGED phase)
    \/ (R_Read /\ UNCHANGED phase)
    \/ (phase = "PostUpdate" /\ W_Start /\ WriteReturns)
    \/ (W_NextRequest /\ WriteReturns)
    \/ (W_Lock /\ UNCHANGED phase)
    \/ (W_Check /\ UNCHANGED phase)
    \/ (W_Write /\ UNCHANGED phase)

Spec == Init /\ [][Next]_vars

\* the schedule of the app, where the system whose turn it is keeps running;
\* every device has at most MaxIO - io refusals and errors left to give
FairSpec == Spec /\ WF_vars(Next)

\* read_serial alone, run after run, on devices that hand a read call one
\* byte, one byte less than the buffer increment, or the whole increment
BigSizes == {1, DEFAULT_READ_BUFFER_LEN - 1, DEFAULT_READ_BUFFER_LEN}

R_ReadBig == R_ReadWith(BigSizes)

BigReadNext ==
    \/ (R_Poll /\ UNCHANGED phase)
    \/ (R_NextEvent /\ UNCHANGED phase)
    \/ (R_Lock /\ UNCHANGED phase)
    \/ (R_Check /\ UNCHANGED phase)
    \/ (R_ReadBig /\ UNCHANGED phase)

BigReadSpec == LiveInit /\ [][BigReadNext]_vars

\* the two systems as two threads sharing the port table: every interleaving
\* of their steps, the app's own order (PreUpdate, then PostUpdate) among them
ConcNext ==
    \/ (R_Poll /\ UNCHANGED phase)
    \/ (R_NextEvent /\ UNCHANGED phase)
    \/ (R_Lock /\ UNCHANGED phase)
    \/ (R_Check /\ UNCHANGED phase)
    \/ (R_Read /\ UNCHANGED phase)
    \/ (W_Start /\ UNCHANGED phase)
    \/ (W_NextRequest /\ UNCHANGED phase)
    \/ (W_Lock /\ UNCHANGED phase)
    \/ (W_Check /\ UNCHANGED phase)
    \/ (W_Write /\ UNCHANGED phase)

ConcSpec == Init /\ [][ConcNext]_vars

(***************************************************************************)
(* Properties                                                              *)
(***************************************************************************)
Connected(t) == serials[t + 1].connected

\* the tokens the current poll reported readable
ReadyTokens == {events[k].token : k \in {i \in DOMAIN events : events[i].readable}}

\* the bytes the successful reads of the current drain returned
DrainBytes(t) ==
    SubSeq(delivered[t], Len(delivered[t]) - bytes_read + 1, Len(delivered[t]))

Suffix(buf, n) == SubSeq(buf, n + 1, Len(buf))

\* C1: whenever read_serial is between two drains, the bytes of all records
\* sent for a port are exactly the bytes its successful reads returned, in
\* order.
C1_ReadCompleteness ==
    rpc \in {"idle", "next"} => \A t \in Tokens : emitted[t] = delivered[t]

\* C2: every write call is offered exactly the part of the payload the device
\* has not accepted yet, and when the loop of a request has ended the device
\* has accepted exactly the payload, in order, once.
C2_WriteCompleteness ==
    /\ wpc = "write" => offered = Suffix(request.buffer, Len(sent))
    /\ (wpc = "next" /\ wi > 1) => sent = ev_write_serial[wi - 1].buffer

\* "Hello" went out in three accepted write calls
C2_Witness ==
    /\ wpc = "next" /\ wi = 2
    /\ ev_write_serial[1] = SerialWriteEvent("a", Hello)
    /\ sent = Hello /\ accepts = 3 /\ wire[0] = Hello

\* C3: no stream.read and no stream.write call is under way on a port whose
\* connected flag is false.
C3_NoIoOnClosedPort ==
    /\ rpc = "read" => Connected(tok)
    /\ wpc = "write" => Connected(serial_index)

\* both pumps are at work on a port that is already closed
C3_Witness ==
    /\ rpc = "check" /\ ~Connected(tok)
    /\ wpc = "lock" /\ serial_index = tok /\ request.buffer # <<>>

\* C4: the iteration of the drain loop that finds the port closed ends the
\* drain: no record is sent and read_serial goes on to the next event.
C4_ClosedPortSkipped ==
    [][(rpc = "check" /\ ~Connected(tok))
        => (rpc' = "next" /\ ei' = ei + 1 /\ ev_receive_serial' = ev_receive_serial)]_vars

\* C5: the iteration of the write loop that finds the port closed ends the
\* loop: write_serial goes on to the next request.
C5_ClosedPortDropsRequest ==
    [][(wpc = "check" /\ ~Connected(serial_index))
        => (wpc' = "next" /\ wi' = wi + 1)]_vars

\* C6: no record sent carries an empty byte sequence.
C6_NoEmptyRecord ==
    \A k \in DOMAIN ev_receive_serial : ev_receive_serial[k].bytes # <<>>

\* C7: when write_serial has stopped, no request with a registered label is
\* left unserved: an unregistered label costs only its own request.
C7_UnknownLabelOnlyDropsRequest ==
    wpc \in {"idle", "panicked"} =>
        \A k \in DOMAIN ev_write_serial :
            k >= wi => ev_write_serial[k].label \notin DOMAIN indices

\* C8: after build, the labels of the ports are pairwise different and the
\* label of port t resolves to t.
C8_LabelResolution ==
    Len(serials) = Len(settings) =>
        \A t \in Tokens :
            /\ \A u \in Tokens : u # t => serials[u + 1].label # serials[t + 1].label
            /\ serials[t + 1].label \in DOMAIN indices
            /\ indices[serials[t + 1].label] = t

\* the ports a step of write_serial may touch: the one the label of the
\* request under way resolves to
WriteTarget ==
    IF wpc \in {"lock", "check", "write"} THEN {indices[request.label]} ELSE {}

\* C9: a step of write_serial on its pending requests leaves every port other
\* than the one the request's label resolves to alone: no bytes reach its
\* device, none are read from it, its lock and its connected flag do not
\* change.
C9_WriteIsolation ==
    [][(wpc' # wpc /\ wpc # "idle") =>
        \A t \in Tokens \ WriteTarget :
            /\ wire'[t] = wire[t]
            /\ delivered'[t] = delivered[t]
            /\ lock'[t] = lock[t]
            /\ serials'[t + 1] = serials[t + 1]]_vars

\* a request for "a" and one for "b" have each reached their own device
C9_Witness ==
    /\ wpc = "next" /\ wi = 3
    /\ ev_write_serial[1].label = "a" /\ ev_write_serial[2].label = "b"
    /\ wire[0] = ev_write_serial[1].buffer
    /\ wire[1] = ev_write_serial[2].buffer

\* C10: read_serial locks, reads and closes only ports the poll reported
\* readable, sends records only for the port it is draining, at most one for
\* a port in one run, and the step that ends a drain on would-block sends
\* one record that holds all bytes the reads of that drain returned.
C10_ReadsOnlyReadyPorts ==
    [][/\ \A t \in Tokens :
            (\/ serials'[t + 1] # serials[t + 1]
             \/ Len(delivered'[t]) > Len(delivered[t])
             \/ Len(emitted'[t]) > Len(emitted[t])
             \/ (lock'[t] = "read_serial" /\ lock[t] # "read_serial"))
            => (t \in ReadyTokens /\ t = events[ei].token)
       /\ (ev_receive_serial' # ev_receive_serial /\ rpc # "idle") =>
            /\ events[ei].readable
            /\ ev_receive_serial' =
                 Append(ev_receive_serial,
                        [label |-> serials[events[ei].token + 1].label,
                         bytes |-> DrainBytes(events[ei].token)])
            /\ \A k \in DOMAIN ev_receive_serial :
                 ev_receive_serial[k].label # serials[events[ei].token + 1].label
       /\ (rpc = "read" /\ rpc' = "next" /\ serials' = serials) =>
            Len(ev_receive_serial') = Len(ev_receive_serial) + 1]_vars

\* "a" was ready, "b" was not; two reads of two bytes, then would-block
C10_Witness ==
    /\ rpc = "next" /\ ei = 2
    /\ events = <<[token |-> 0, readable |-> TRUE]>>
    /\ io = 2
    /\ ev_receive_serial = <<[label |-> "a", bytes |-> Chunk(0, 0, 4)]>>
    /\ delivered[1] = <<>> /\ Connected(1)

\* C11: a record is sent only by the step of a drain whose read call returned
\* would-block; that step sends one record, leaves the port open and ends the
\* drain, so a drain sends at most one record.  The step whose read call
\* returned Ok(0) closes the port, ends the drain and sends no record, whatever
\* the drain had read before.
C11_OneRecordPerDrain ==
    [][/\ (ev_receive_serial' # ev_receive_serial /\ rpc # "idle") =>
            /\ rpc = "read" /\ rres'.kind = "WouldBlock"
            /\ Len(ev_receive_serial') = Len(ev_receive_serial) + 1
            /\ SubSeq(ev_receive_serial', 1, Len(ev_receive_serial)) = ev_receive_serial
            /\ serials' = serials
            /\ rpc' = "next" /\ ei' = ei + 1
       /\ (rpc = "read" /\ rres' = [kind |-> "Ok", n |-> 0]) =>
            /\ ~serials'[tok + 1].connected
            /\ ev_receive_serial' = ev_receive_serial
            /\ emitted' = emitted
            /\ rpc' = "next" /\ ei' = ei + 1]_vars

\* the drain of "a" ended on would-block with its record; the drain of "b"
\* read a byte and then ended on Ok(0) without one
C11_Witness ==
    /\ rpc = "next" /\ ei = 3
    /\ rres = [kind |-> "Ok", n |-> 0]
    /\ ev_receive_serial = <<[label |-> "a", bytes |-> Chunk(0, 0, 1)]>>
    /\ ~Connected(1) /\ delivered[1] = Chunk(1, 0, 1) /\ emitted[1] = <<>>

\* C12: every port is connected after build; a connected flag that is false
\* stays false; a flag goes from true to false only in the step of read_serial
\* whose read call on that port returned Ok(0); no step of write_serial
\* changes a flag.
C12_ConnectedMonotone ==
    /\ \A t \in Tokens : Connected(t)
    /\ [][/\ \A t \in Tokens :
              /\ ~Connected(t) => ~serials'[t + 1].connected
              /\ (Connected(t) /\ ~serials'[t + 1].connected) =>
                    /\ rpc = "read" /\ tok = t
                    /\ rres' = [kind |-> "Ok", n |-> 0]
                    /\ wpc' = wpc
          /\ (wpc' # wpc => serials' = serials)]_vars

\* read_serial closed "a" on Ok(0); later a write call on "b" failed with an
\* error and left "b" open and "a" closed
C12_Witness ==
    /\ ~Connected(0) /\ Connected(1)
    /\ wres.kind = "Other" /\ wpc = "lock" /\ serial_index = 1

\* the pump is inside the `if let Ok(mut serial) = serial_mtx.lock()` block
ReadHolds == rpc \in {"check", "read"}
WriteHolds == wpc \in {"check", "write"}

\* C13: with the two pumps interleaved, a port's lock is held by read_serial
\* exactly while read_serial is inside its lock block on that port, and by
\* write_serial likewise, so the two are never inside the block on the same
\* port together; every read and write call is made by the holder of the
\* port's lock; and at the top of every round of a drain or write loop the
\* pump holds no lock: one hold covers at most one call.
C13_PerAttemptMutualExclusion ==
    /\ \A t \in Tokens :
          /\ lock[t] = "read_serial" <=> (ReadHolds /\ tok = t)
          /\ lock[t] = "write_serial" <=> (WriteHolds /\ serial_index = t)
    /\ ~(ReadHolds /\ WriteHolds /\ tok = serial_index)
    /\ rpc = "read" => lock[tok] = "read_serial"
    /\ wpc = "write" => lock[serial_index] = "write_serial"
    /\ rpc = "lock" => \A t \in Tokens : lock[t] # "read_serial"
    /\ wpc = "lock" => \A t \in Tokens : lock[t] # "write_serial"

\* the drain of "a" is in its second read call, holding the lock again, while
\* the write loop for "a", one partial write done, waits for the lock
C13_Witness ==
    /\ rpc = "read" /\ bytes_read > 0 /\ tok = 0
    /\ wpc = "lock" /\ serial_index = 0 /\ bytes_wrote > 0
    /\ lock[0] = "read_serial"

C15_ReadErrorsNonFatal ==
    [][/\ (rpc = "read" /\ rres'.kind \in {"Interrupted", "Other"}) =>
            /\ rpc' = "lock" /\ ei' = ei /\ events' = events
            /\ serials' = serials
            /\ ev_receive_serial' = ev_receive_serial /\ emitted' = emitted
            /\ buffer' = buffer /\ bytes_read' = bytes_read
            /\ delivered' = delivered
       /\ (rpc = "read" /\ rres'.kind = "WouldBlock") =>
            ev_receive_serial'[Len(ev_receive_serial')].bytes = DrainBytes(tok)]_vars

\* a drain of "a" read one byte, then a read call failed with an error: the
\* drain goes on with the byte kept
C15_Witness ==
    /\ rpc = "lock" /\ rres.kind = "Other" /\ tok = 0
    /\ bytes_read = 1 /\ VecAt(buffer, 1) = DeviceByte(0, 0)
    /\ Connected(0) /\ ev_receive_serial = <<>>

WriteRefusals == {"WouldBlock", "Interrupted", "Other"}

\* C16 as stated: the step in which a write call returned would-block,
\* Interrupted or another error goes back to the top of the write loop with
\* bytes_wrote as before.
C16_RefusalNeverEndsLoop ==
    [][(wpc = "write" /\ wres'.kind \in WriteRefusals) =>
            (wpc' = "lock" /\ wi' = wi /\ bytes_wrote' = bytes_wrote)]_vars

\* C16, amended: the same for a write call that was offered at least one
\* byte; the loop for an empty payload ends after its first write call
\* whatever the result; and the write loop for a request to an open port,
\* on a device that refuses only finitely often, ends with the device having
\* accepted exactly the payload.
C16_WriteLoopTermination ==
    /\ [][(wpc = "write" /\ offered # <<>> /\ wres'.kind \in WriteRefusals) =>
            /\ wpc' = "lock" /\ wi' = wi
            /\ bytes_wrote' = bytes_wrote /\ sent' = sent]_vars
    /\ [][(wpc = "write" /\ request.buffer = <<>>) =>
            (wpc' = "next" /\ wi' = wi + 1 /\ bytes_wrote' = 0)]_vars
    /\ (wpc = "lock" /\ Connected(serial_index))
          ~> (wpc = "next" /\ wi > 1 /\ sent = ev_write_serial[wi - 1].buffer)

\* "Hello" went out whole in a run of write_serial; two device calls had
\* been refused or had failed by then
C16_Witness ==
    /\ wpc = "next" /\ wi = 2
    /\ ev_write_serial[1] = SerialWriteEvent("a", Hello)
    /\ sent = Hello /\ io >= 2 /\ rpc = "idle"
    /\ \A t \in Tokens : delivered[t] = <<>> /\ Connected(t)

\* write_serial is inside the write loop of a request
InWriteLoop == wpc \in {"lock", "check", "write"}

\* C17: inside a write loop 0 <= bytes_wrote <= payload length and bytes_wrote
\* is the number of bytes the device accepted from this request; a step of the
\* loop never lowers it, a write call adds exactly the count it returned
\* (nothing on an error), and a round of the loop ends the loop exactly when
\* bytes_wrote equals the payload length.
C17_BytesWroteInvariant ==
    /\ [](InWriteLoop =>
            /\ 0 <= bytes_wrote /\ bytes_wrote <= Len(request.buffer)
            /\ bytes_wrote = Len(sent))
    /\ [][InWriteLoop =>
            /\ bytes_wrote' >= bytes_wrote
            /\ wpc = "write" =>
                  bytes_wrote' = bytes_wrote
                                 + (IF wres'.kind = "Ok" THEN wres'.n ELSE 0)
            /\ (wpc = "write" \/ (wpc = "check" /\ ~Connected(serial_index))) =>
                  /\ wpc' = "next" <=> bytes_wrote' = Len(request.buffer)
                  /\ wpc' = "lock" <=> bytes_wrote' # Len(request.buffer)]_vars

\* "Hello": a first call took two bytes, a later one the three that were left
C17_Witness ==
    /\ wpc = "next" /\ wi = 2
    /\ ev_write_serial[1] = SerialWriteEvent("a", Hello)
    /\ wres = [kind |-> "Ok", n |-> 3] /\ accepts = 2
    /\ bytes_wrote = 5 /\ sent = Hello

\* read_serial is inside the drain loop of an event
InDrain == rpc \in {"lock", "check", "read"}

\* C18: inside a drain bytes_read is below the buffer length, so every read
\* call is offered a non-empty slice; the buffer length is 2048 at the start
\* of the drain plus 2048 for every time a read filled the buffer, that is
\* 2048 * (bytes_read \div 2048 + 1).
C18_BufferGrowth ==
    InDrain =>
        /\ bytes_read >= 0 /\ bytes_read < VecLen(buffer)
        /\ VecLen(buffer) > 0
        /\ VecLen(buffer) % DEFAULT_READ_BUFFER_LEN = 0
        /\ VecLen(buffer) =
             DEFAULT_READ_BUFFER_LEN * ((bytes_read \div DEFAULT_READ_BUFFER_LEN) + 1)
        /\ Len(buffer.head) <= bytes_read

\* two reads have each filled the buffer to its end: 2048 bytes at once,
\* then 2047 and 1; the third increment is in place for the next read call
C18_Witness ==
    /\ rpc = "read" /\ io = 3
    /\ bytes_read = 2 * DEFAULT_READ_BUFFER_LEN
    /\ VecLen(buffer) = 3 * DEFAULT_READ_BUFFER_LEN
    /\ VecAt(buffer, bytes_read) = DeviceByte(tok, bytes_read - 1)

\* the payloads of the first k pending requests that are addressed to port t,
\* one after the other
RECURSIVE PayloadsTo(_, _)
PayloadsTo(t, k) ==
    IF k = 0 THEN <<>>
    ELSE PayloadsTo(t, k - 1)
         \o (IF indices[ev_write_serial[k].label] = t
             THEN ev_write_serial[k].buffer ELSE <<>>)

\* C19: during a run of write_serial the bytes a device has accepted are the
\* whole payloads of the requests before the current one that are addressed
\* to its port, in queue order, followed, on the port of the request under
\* way, by the part of that payload accepted so far; a write call is offered
\* bytes of the request under way only.
C19_RequestsInOrder ==
    wpc \in {"next", "lock", "check", "write", "panicked"} =>
        /\ \A t \in Tokens :
              wire[t] = PayloadsTo(t, wi - 1)
                        \o (IF InWriteLoop /\ serial_index = t THEN sent ELSE <<>>)
        /\ InWriteLoop => sent = SubSeq(request.buffer, 1, bytes_wrote)
        /\ wpc = "write" => offered = Suffix(request.buffer, bytes_wrote)

\* three requests for "a" in one run, <<>>, <<7, 8>> and <<9>>, all served
C19_Witness ==
    /\ wpc = "next" /\ wi = 4
    /\ ev_write_serial[2] = SerialWriteEvent("a", <<7, 8>>)
    /\ ev_write_serial[3] = SerialWriteEvent("a", <<9>>)
    /\ wire[0] = <<7, 8, 9>> /\ wire[1] = <<>>
====
